---- MODULE Spec2Model ----
(***************************************************************************)
(* A model of the ticket bot of src/index.js: the tickets table, the guild *)
(* channels, the pending-category map, the interaction handlers with their *)
(* continuations after an await, the five-second close timer, and the      *)
(* transcript builder's paging loop.                                       *)
(*                                                                         *)
(* A handler runs without interruption up to its first await whose result  *)
(* matters; what follows the await is a task in `tasks`, taken up by a     *)
(* later action. Awaited calls into the chat platform succeed or fail: an   *)
(* action draws the outcome with \E ok \in BOOLEAN.                         *)
(***************************************************************************)
EXTENDS Integers, Sequences, FiniteSets, Bags, TLC

(* ------------------------------ bounds -------------------------------- *)
\* ticket channels ever created plus creations in flight
MaxTickets == 1
\* continuations and timers in flight at once
MaxTasks == 2
\* longest channel history of the transcript specification
MaxMsgs == 250
\* highest suffix of the channel names that are taken before a creation
MaxSuffix == 2
\* most changes of a channel's history while one transcript is built
MaxEdits == 2

(* ----------------------------- constants ------------------------------ *)
NULL == "NULL"
Undefined == "undefined"
GuildId == "G1"
General == 100

STAFF_ROLE_NAME == "Staff"

\* the letter o-umlaut of entries 9 to 11 is written ~ here
CATEGORIES ==
  << "Unban Aanvraag Anti Cheat", "Unban Aanvraag Discord",
     "Unban Aanvraag Ingame", "Klachten Over Spelers", "Klachten Over Staff",
     "Ingame Refunds", "Pc Checks", "Overige Vragen",
     "Content Creator Co~rdinator", "Hulpdiensten Co~rdinator",
     "Onderwereld Co~rdinator", "Development", "Car Development",
     "Headstaff", "Bestuur", "Staff Sollicitatie's", "Donaties" >>

\* the members of the guild: adm is an administrator, stf bears the staff
\* role, usr and gst have neither.
\* the members that press buttons and issue commands
Actors == {"adm", "stf", "usr"}
Requesters == {"usr", "gst"}
Targets == {"usr"}
\* the option values of the category menu that requesters pick here, of the
\* seventeen it offers: the first, the third and the last
MenuIndices == {0, 2, 16}
Topics == {"", "banned by mistake"}
RenameNames == {<<"renamed">>}
Actions == {"claim", "unclaim", "close", "transcript"}

Member(id) ==
  [present |-> TRUE, id |-> id, administrator |-> (id = "adm"),
   roles |-> IF id = "stf" THEN {"Staff"}
             ELSE IF id = "usr" THEN {"Member"} ELSE {},
   username |-> IF id = "usr" THEN "Usr One" ELSE id,
   nickname |-> IF id = "gst" THEN "G 2" ELSE ""]

(* ------------------------------ helpers ------------------------------- *)
\* JavaScript truthiness of a string-or-missing value
Truthy(v) == v # "" /\ v # NULL /\ v # Undefined

\* normalizeForName on the strings of this model: lower case, characters
\* outside [a-z0-9 _-] removed, trimmed, white space to dashes
normalizeForName(s) ==
  CASE s = "" -> ""
    [] s = "Unban Aanvraag Anti Cheat" -> "unban-aanvraag-anti-cheat"
    [] s = "Unban Aanvraag Discord" -> "unban-aanvraag-discord"
    [] s = "Unban Aanvraag Ingame" -> "unban-aanvraag-ingame"
    [] s = "Klachten Over Spelers" -> "klachten-over-spelers"
    [] s = "Klachten Over Staff" -> "klachten-over-staff"
    [] s = "Ingame Refunds" -> "ingame-refunds"
    [] s = "Pc Checks" -> "pc-checks"
    [] s = "Overige Vragen" -> "overige-vragen"
    [] s = "Content Creator Co~rdinator" -> "content-creator-cordinator"
    [] s = "Hulpdiensten Co~rdinator" -> "hulpdiensten-cordinator"
    [] s = "Onderwereld Co~rdinator" -> "onderwereld-cordinator"
    [] s = "Development" -> "development"
    [] s = "Car Development" -> "car-development"
    [] s = "Headstaff" -> "headstaff"
    [] s = "Bestuur" -> "bestuur"
    [] s = "Staff Sollicitatie's" -> "staff-sollicitaties"
    [] s = "Donaties" -> "donaties"
    [] s = "Usr One" -> "usr-one"
    [] s = "G 2" -> "g-2"
    [] OTHER -> s

\* faulty variant: any role counts as the staff role
isStaffAnyRole(member) ==
  IF ~member.present THEN FALSE
  ELSE IF member.administrator THEN TRUE
  ELSE member.roles # {}

isStaff(member) ==
  IF ~member.present THEN FALSE
  ELSE IF member.administrator THEN TRUE
  ELSE \E r \in member.roles : r = STAFF_ROLE_NAME

\* String(i) of the menu's option values and parseInt(chosen, 10)
DecimalStr(i) == ToString(i)
parseInt(s) ==
  IF \E i \in 0..(Len(CATEGORIES) + 1) : ToString(i) = s
  THEN CHOOSE i \in 0..(Len(CATEGORIES) + 1) : ToString(i) = s
  ELSE -1

\* faulty variant: the catalog read one entry too far
categoryNameOfNext(categoryIndex) ==
  IF categoryIndex + 1 \in 0..(Len(CATEGORIES) - 1)
  THEN CATEGORIES[categoryIndex + 2]
  ELSE "Overige Vragen"

\* CATEGORIES[categoryIndex] || 'Overige Vragen'
categoryNameOf(categoryIndex) ==
  IF categoryIndex \in 0..(Len(CATEGORIES) - 1)
  THEN CATEGORIES[categoryIndex + 1]
  ELSE "Overige Vragen"

(* --------------------------- the tickets table ------------------------ *)
NoRow == [id |-> 0, guild_id |-> "", channel_id |-> 0, owner_id |-> "",
          claimed_by |-> NULL, status |-> "", category |-> "",
          topic |-> NULL, created_at |-> 0]

insertTicketRow(tk, guildId, channelId, ownerId, cat, topic, t) ==
  Append(tk, [id |-> Len(tk) + 1, guild_id |-> guildId,
              channel_id |-> channelId, owner_id |-> ownerId,
              claimed_by |-> NULL, status |-> "open", category |-> cat,
              topic |-> IF Truthy(topic) THEN topic ELSE NULL,
              created_at |-> t])

getTicketById(tk, id) ==
  IF \E i \in 1..Len(tk) : tk[i].id = id
  THEN tk[CHOOSE i \in 1..Len(tk) : tk[i].id = id]
  ELSE NoRow

\* faulty variant: without a row of the channel, the first row is taken
getTicketByChannelFallback(tk, channelId) ==
  IF \E i \in 1..Len(tk) : tk[i].channel_id = channelId
  THEN tk[CHOOSE i \in 1..Len(tk) :
            /\ tk[i].channel_id = channelId
            /\ \A j \in 1..(i - 1) : tk[j].channel_id # channelId]
  ELSE IF Len(tk) > 0 THEN tk[1] ELSE NoRow

getTicketByChannel(tk, channelId) ==
  IF \E i \in 1..Len(tk) : tk[i].channel_id = channelId
  THEN tk[CHOOSE i \in 1..Len(tk) :
            /\ tk[i].channel_id = channelId
            /\ \A j \in 1..(i - 1) : tk[j].channel_id # channelId]
  ELSE NoRow

\* faulty variant: UPDATE without the WHERE clause
updateTicketClaimNoWhere(tk, id, userId) ==
  [i \in 1..Len(tk) |-> [tk[i] EXCEPT !.claimed_by = userId]]

updateTicketClaim(tk, id, userId) ==
  [i \in 1..Len(tk) |->
     IF tk[i].id = id THEN [tk[i] EXCEPT !.claimed_by = userId] ELSE tk[i]]

\* faulty variant: UPDATE without the WHERE clause
unclaimTicketNoWhere(tk, id) ==
  [i \in 1..Len(tk) |-> [tk[i] EXCEPT !.claimed_by = NULL]]

unclaimTicket(tk, id) ==
  [i \in 1..Len(tk) |->
     IF tk[i].id = id THEN [tk[i] EXCEPT !.claimed_by = NULL] ELSE tk[i]]

\* faulty variants: the status is written only after the timer (not here),
\* and a second Close flips the status back
closeTicketRowLater(tk, id) == tk

closeTicketRowToggle(tk, id) ==
  [i \in 1..Len(tk) |->
     IF tk[i].id = id
     THEN [tk[i] EXCEPT !.status = IF @ = "closed" THEN "open" ELSE "closed"]
     ELSE tk[i]]

\* faulty variant: closing also clears the record's channel
closeTicketRowForgets(tk, id) ==
  [i \in 1..Len(tk) |->
     IF tk[i].id = id
     THEN [tk[i] EXCEPT !.status = "closed", !.channel_id = 0] ELSE tk[i]]

closeTicketRow(tk, id) ==
  [i \in 1..Len(tk) |->
     IF tk[i].id = id THEN [tk[i] EXCEPT !.status = "closed"] ELSE tk[i]]

buildTicketControlRow(ticketId) ==
  { <<"claim", ticketId>>, <<"unclaim", ticketId>>,
    <<"close", ticketId>>, <<"transcript", ticketId>> }

(* -------------------------------- state ------------------------------- *)
VARIABLES
  tickets,    \* the rows of the tickets table, in id order
  channels,   \* guild.channels.cache: channel id -> name, overwrites, controls
  nextChannel,\* the id the platform gives the next created channel
  pending,    \* pendingCategoryForUser: requester -> chosen value
  tasks,      \* bag of continuations after an await, and of armed timers
  files,      \* channel ids with a transcript file on disk
  now,        \* Date.now()
  reply,      \* kind of the last reply sent to an interaction: "ok" (a
              \* success or info embed), "released" (Ticket geunclaimd,
              \* Geunclaimd), "denied" (Geen permissie), "notfound"
              \* (Niet gevonden, Geen ticket), "nochannel" (Kanaal niet
              \* gevonden), "conflict" (Al geclaimd, Niet geclaimd),
              \* "invalid" (Ongeldige actie),
              \* "expired" (no pending category), "error" (Fout, Error),
              \* "modal", "deferred", "none"
  hist, acc, lastId, tpc, fetches, out  \* the transcript builder (below)

lifeVars == <<tickets, channels, nextChannel, pending, tasks, files, now, reply>>
trVars == <<hist, acc, lastId, tpc, fetches, out>>
vars == <<tickets, channels, nextChannel, pending, tasks, files, now, reply,
          hist, acc, lastId, tpc, fetches, out>>


(* ------------------------------ tasks --------------------------------- *)
\* A task is what a handler still has to do after an await: its position pc
\* and the locals it keeps (ticketRow's id, channel_id and owner_id; the
\* chosen value, topic and channel name of a creation). The Close button and
\* the /close command leave the same task: their continuations differ in the
\* order of notice and reply and in where a failure is caught, not in what
\* they do to the table, the channels or the files. A Close's callback that
\* is followed delivery by delivery also keeps which of its deliveries of
\* the transcript went through (sent).
Task(kind, pc, tid, chan, owner, name, chosen, topic) ==
  [kind |-> kind, pc |-> pc, tid |-> tid, chan |-> chan,
   owner |-> owner, name |-> name, chosen |-> chosen, topic |-> topic,
   sent |-> {}]

TaskSet == BagToSet(tasks)
NumTasks == BagCardinality(tasks)
AddTask(t) == tasks (+) SetToBag({t})
DropTask(t) == tasks (-) SetToBag({t})
MoveTask(t, pc) == (tasks (-) SetToBag({t})) (+) SetToBag({[t EXCEPT !.pc = pc]})
NumCreating ==
  LET creating == {t \in TaskSet : t.kind = "create"}
      F[S \in SUBSET creating] ==
        IF S = {} THEN 0
        ELSE LET t == CHOOSE x \in S : TRUE
             IN CopiesIn(t, tasks) + F[S \ {t}]
  IN F[creating]

ChannelNames == {channels[c].name : c \in DOMAIN channels}
ButtonIds == 1..(Len(tickets) + 1)

(* ------------------------- ticket creation ---------------------------- *)
\* channelBase: the category slug, the user name's slug and, if it differs,
\* the nickname's slug, joined by dashes (a sequence of the joined parts)
channelBaseOf(categoryName, member) ==
  LET username == normalizeForName(
                    IF Truthy(member.username) THEN member.username ELSE "user")
      nickname == IF Truthy(member.nickname)
                  THEN normalizeForName(member.nickname) ELSE ""
      base == <<normalizeForName(categoryName), username>>
  IN IF Truthy(nickname) /\ nickname # username
     THEN Append(base, nickname) ELSE base

\* the loop "while some channel has this name, take base-suffix++"
RECURSIVE uniqueNameFrom(_, _, _, _)
uniqueNameFrom(names, channelBase, channelName, suffix) ==
  IF channelName \in names
  THEN uniqueNameFrom(names, channelBase,
                      Append(channelBase, ToString(suffix)), suffix + 1)
  ELSE channelName

\* faulty variant: the name is tested once, not in a loop
uniqueNameOnce(names, channelBase) ==
  IF channelBase \in names THEN Append(channelBase, ToString(1))
  ELSE channelBase

uniqueName(names, channelBase) ==
  uniqueNameFrom(names, channelBase, channelBase, 1)

\* a channel as createTicketChannelFromChoice leaves it
TicketChannel(name, owner, ticketId) ==
  [name |-> name, allow |-> {owner, "role:Staff"}, deny |-> {"@everyone"},
   controls |-> buildTicketControlRow(ticketId)]

GeneralChannel ==
  [name |-> <<"general">>, allow |-> {}, deny |-> {}, controls |-> {}]

TranscriptIdle ==
  /\ hist = <<>> /\ acc = <<>> /\ lastId = 0 /\ tpc = "idle"
  /\ fetches = 0 /\ out = <<>>

\* the process starts on an empty table
CreateInit ==
  /\ tickets = <<>>
  /\ channels = (General :> GeneralChannel)
  /\ nextChannel = 1
  /\ pending = [u \in Requesters |-> Undefined]
  /\ tasks = EmptyBag
  /\ files = {}
  /\ now = 1
  /\ reply = "none"
  /\ TranscriptIdle

\* the process starts on the table and the guild that earlier runs left:
\* ticket 1 of usr is open with its channel, ticket 2 of gst was closed and
\* its channel deleted after the transcript
EarlierRuns ==
  /\ tickets = closeTicketRow(
                 insertTicketRow(
                   insertTicketRow(<<>>, GuildId, 1, "usr",
                                   categoryNameOf(2), "banned by mistake", 1),
                   GuildId, 2, "gst", categoryNameOf(0), "", 2),
                 2)
  /\ channels = (General :> GeneralChannel) @@
                (1 :> TicketChannel(
                        uniqueName({}, channelBaseOf(categoryNameOf(2),
                                                     Member("usr"))),
                        "usr", 1))
  /\ nextChannel = 3
  /\ pending = [u \in Requesters |-> Undefined]
  /\ files = {2}
  /\ now = 3
  /\ reply = "none"
  /\ TranscriptIdle

Init == EarlierRuns /\ tasks = EmptyBag

\* pendingCategoryForUser.set and pendingCategoryForUser.delete
\* faulty variant: one slot for all requesters
pendingSetShared(p, userId, chosen) == [u \in DOMAIN p |-> chosen]

pendingSet(p, userId, chosen) == [p EXCEPT ![userId] = chosen]

\* faulty variant: the entry is not deleted
pendingDeleteNot(p, userId) == p

pendingDelete(p, userId) == [p EXCEPT ![userId] = Undefined]

\* select menu: pendingCategoryForUser.set(user.id, values[0]); showModal
SelectCategory(u, i) ==
  /\ pending' = pendingSet(pending, u, DecimalStr(i))
  /\ reply' = "modal"
  /\ UNCHANGED <<tickets, channels, nextChannel, tasks, files, now>>
  /\ UNCHANGED trVars

\* modal submit: get and delete the pending entry; without one, reject. With
\* one the handler goes on to deferReply, its first await.
ModalSubmit(u, topicInput) ==
  LET chosen == pending[u]
      topic == IF Truthy(topicInput) THEN topicInput ELSE NULL
  IN /\ pending' = pendingDelete(pending, u)
     /\ IF ~Truthy(chosen)
        THEN /\ reply' = "expired"
             /\ tasks' = tasks
        ELSE /\ (nextChannel - 1) + NumCreating < MaxTickets
             /\ NumTasks < MaxTasks
             /\ tasks' = AddTask(Task("create", "deferring",
                                      0, 0, u, <<>>, chosen, topic))
             /\ reply' = reply
     /\ UNCHANGED <<tickets, channels, nextChannel, files, now>>
     /\ UNCHANGED trVars

\* faulty variant: the names that creations in flight have chosen count as
\* taken
CallChannelCreateReserving(t, deferOk, parentOk) ==
  LET categoryName == categoryNameOf(parseInt(t.chosen))
      inFlight == {u.name : u \in {x \in TaskSet : x.kind = "create"
                                                   /\ x.pc = "creating"}}
      channelName == uniqueName(ChannelNames \cup inFlight,
                                channelBaseOf(categoryName, Member(t.owner)))
  IN /\ t \in TaskSet /\ t.kind = "create" /\ t.pc = "deferring"
     /\ IF deferOk /\ parentOk
        THEN /\ tasks' = (tasks (-) SetToBag({t})) (+)
                   SetToBag({[t EXCEPT !.pc = "creating", !.name = channelName]})
             /\ reply' = "deferred"
        ELSE /\ tasks' = DropTask(t)
             /\ reply' = "error"
     /\ UNCHANGED <<tickets, channels, nextChannel, pending, files, now>>
     /\ UNCHANGED trVars

\* deferReply, the category parent and the member fetch have resolved (or
\* deferReply or the parent failed, which ends the creation): the name is
\* chosen against the cache as it is now and guild.channels.create is called
CallChannelCreate(t, deferOk, parentOk) ==
  LET categoryName == categoryNameOf(parseInt(t.chosen))
      channelName == uniqueName(ChannelNames,
                                channelBaseOf(categoryName, Member(t.owner)))
  IN /\ t \in TaskSet /\ t.kind = "create" /\ t.pc = "deferring"
     /\ IF deferOk /\ parentOk
        THEN /\ tasks' = (tasks (-) SetToBag({t})) (+)
                   SetToBag({[t EXCEPT !.pc = "creating", !.name = channelName]})
             /\ reply' = "deferred"
        ELSE /\ tasks' = DropTask(t)
             /\ reply' = "error"
     /\ UNCHANGED <<tickets, channels, nextChannel, pending, files, now>>
     /\ UNCHANGED trVars

\* guild.channels.create resolves: the channel exists, hidden from @everyone
\* and visible to the requester; or it rejects and the creation ends.
\* faulty variant: the platform hands out the same channel id again
ChannelCreatedSameId(t, ok) ==
  /\ t \in TaskSet /\ t.kind = "create" /\ t.pc = "creating"
  /\ IF ok
     THEN /\ channels' = channels @@
                (nextChannel :> [name |-> t.name, allow |-> {t.owner},
                                 deny |-> {"@everyone"}, controls |-> {}])
          /\ nextChannel' = nextChannel
          /\ tasks' = (tasks (-) SetToBag({t})) (+)
                SetToBag({[t EXCEPT !.pc = "insert", !.chan = nextChannel]})
          /\ reply' = reply
     ELSE /\ tasks' = DropTask(t)
          /\ reply' = "error"
          /\ UNCHANGED <<channels, nextChannel>>
  /\ UNCHANGED <<tickets, pending, files, now>>
  /\ UNCHANGED trVars

ChannelCreated(t, ok) ==
  /\ t \in TaskSet /\ t.kind = "create" /\ t.pc = "creating"
  /\ IF ok
     THEN /\ channels' = channels @@
                (nextChannel :> [name |-> t.name, allow |-> {t.owner},
                                 deny |-> {"@everyone"}, controls |-> {}])
          /\ nextChannel' = nextChannel + 1
          /\ tasks' = (tasks (-) SetToBag({t})) (+)
                SetToBag({[t EXCEPT !.pc = "insert", !.chan = nextChannel]})
          /\ reply' = reply
     ELSE /\ tasks' = DropTask(t)
          /\ reply' = "error"
          /\ UNCHANGED <<channels, nextChannel>>
  /\ UNCHANGED <<tickets, pending, files, now>>
  /\ UNCHANGED trVars

\* after the staff role's overwrite (a failure is ignored): insertTicketRow,
\* then the introductory message with the control row; a failed send ends
\* the handler with the error reply, the row stays.
InsertAndIntroduce(t, staffOk, sendOk) ==
  LET categoryName == categoryNameOf(parseInt(t.chosen))
      ticketId == Len(tickets) + 1
      here == t.chan \in DOMAIN channels
  IN /\ t \in TaskSet /\ t.kind = "create" /\ t.pc = "insert"
     /\ tickets' = insertTicketRow(tickets, GuildId, t.chan, t.owner,
                                   categoryName, t.topic, now)
     /\ channels' =
          IF here
          THEN [channels EXCEPT ![t.chan] =
                 [@ EXCEPT
                    !.allow = IF staffOk THEN @ \cup {"role:Staff"} ELSE @,
                    !.controls = IF sendOk
                                 THEN @ \cup buildTicketControlRow(ticketId)
                                 ELSE @]]
          ELSE channels
     /\ reply' = IF sendOk /\ here THEN "ok" ELSE "error"
     /\ now' = now + 1
     /\ tasks' = DropTask(t)
     /\ UNCHANGED <<nextChannel, pending, files>>
     /\ UNCHANGED trVars

(* ------------------------------ buttons ------------------------------- *)
\* customId without a ticket id
ButtonNoId(action) ==
  /\ reply' = "invalid"
  /\ UNCHANGED <<tickets, channels, nextChannel, pending, tasks, files, now>>
  /\ UNCHANGED trVars

ClaimButton(a, ticketId) ==
  LET ticketRow == getTicketById(tickets, ticketId)
      member == Member(a)
  IN /\ IF ticketRow.id = 0
        THEN reply' = "notfound" /\ tickets' = tickets
        ELSE IF ~isStaff(member)
        THEN reply' = "denied" /\ tickets' = tickets
        ELSE IF Truthy(ticketRow.claimed_by)
        THEN reply' = "conflict" /\ tickets' = tickets
        ELSE /\ tickets' = updateTicketClaim(tickets, ticketId, member.id)
             /\ reply' = "ok"
     /\ UNCHANGED <<channels, nextChannel, pending, tasks, files, now>>
     /\ UNCHANGED trVars

UnclaimButton(a, ticketId) ==
  LET ticketRow == getTicketById(tickets, ticketId)
      member == Member(a)
  IN /\ IF ticketRow.id = 0
        THEN reply' = "notfound" /\ tickets' = tickets
        ELSE IF ~isStaff(member)
        THEN reply' = "denied" /\ tickets' = tickets
        ELSE IF ~Truthy(ticketRow.claimed_by)
        THEN reply' = "conflict" /\ tickets' = tickets
        ELSE /\ tickets' = unclaimTicket(tickets, ticketId)
             /\ reply' = "released"
     /\ UNCHANGED <<channels, nextChannel, pending, tasks, files, now>>
     /\ UNCHANGED trVars

\* faulty variant: a Close of a closed ticket is rejected
CloseButtonOnce(a, ticketId) ==
  LET ticketRow == getTicketById(tickets, ticketId)
      member == Member(a)
  IN /\ IF ticketRow.id = 0
        THEN reply' = "notfound" /\ UNCHANGED <<tickets, tasks>>
        ELSE IF ~isStaff(member)
        THEN reply' = "denied" /\ UNCHANGED <<tickets, tasks>>
        ELSE IF ticketRow.status = "closed"
        THEN reply' = "conflict" /\ UNCHANGED <<tickets, tasks>>
        ELSE /\ NumTasks < MaxTasks
             /\ tickets' = closeTicketRow(tickets, ticketId)
             /\ tasks' = AddTask(Task("close", "notify",
                           ticketRow.id, ticketRow.channel_id,
                           ticketRow.owner_id, <<>>, "", NULL))
             /\ reply' = reply
     /\ UNCHANGED <<channels, nextChannel, pending, files, now>>
     /\ UNCHANGED trVars

\* Close: the row is closed before the first await; the notice and the reply
\* follow in CloseNotify.
CloseButton(a, ticketId) ==
  LET ticketRow == getTicketById(tickets, ticketId)
      member == Member(a)
  IN /\ IF ticketRow.id = 0
        THEN reply' = "notfound" /\ UNCHANGED <<tickets, tasks>>
        ELSE IF ~isStaff(member)
        THEN reply' = "denied" /\ UNCHANGED <<tickets, tasks>>
        ELSE /\ NumTasks < MaxTasks
             /\ tickets' = closeTicketRow(tickets, ticketId)
             /\ tasks' = AddTask(Task("close", "notify",
                           ticketRow.id, ticketRow.channel_id,
                           ticketRow.owner_id, <<>>, "", NULL))
             /\ reply' = reply
     /\ UNCHANGED <<channels, nextChannel, pending, files, now>>
     /\ UNCHANGED trVars

\* makeTranscript as the ticket handlers see it: the file of the channel is
\* written, or the build throws (a fetch or the write fails)
transcriptWritten(fs, channelId, ok) ==
  IF ok THEN fs \cup {channelId} ELSE fs

\* faulty variant: the manual transcript closes the ticket as Close does
TranscriptButtonCloses(a, ticketId) ==
  LET ticketRow == getTicketById(tickets, ticketId)
      member == Member(a)
  IN /\ IF ticketRow.id = 0
        THEN reply' = "notfound" /\ UNCHANGED <<files, tickets>>
        ELSE IF ~isStaff(member)
        THEN reply' = "denied" /\ UNCHANGED <<files, tickets>>
        ELSE IF ticketRow.channel_id \notin DOMAIN channels
        THEN reply' = "nochannel" /\ UNCHANGED <<files, tickets>>
        ELSE \E ok \in BOOLEAN :
               /\ files' = transcriptWritten(files, ticketRow.channel_id, ok)
               /\ tickets' = closeTicketRow(tickets, ticketId)
               /\ reply' = IF ok THEN "ok" ELSE "error"
     /\ UNCHANGED <<channels, nextChannel, pending, tasks, now>>
     /\ UNCHANGED trVars

TranscriptButton(a, ticketId) ==
  LET ticketRow == getTicketById(tickets, ticketId)
      member == Member(a)
  IN /\ IF ticketRow.id = 0
        THEN reply' = "notfound" /\ files' = files
        ELSE IF ~isStaff(member)
        THEN reply' = "denied" /\ files' = files
        ELSE IF ticketRow.channel_id \notin DOMAIN channels
        THEN reply' = "nochannel" /\ files' = files
        ELSE \E ok \in BOOLEAN :
               /\ files' = transcriptWritten(files, ticketRow.channel_id, ok)
               /\ reply' = IF ok THEN "ok" ELSE "error"
     /\ UNCHANGED <<tickets, channels, nextChannel, pending, tasks, now>>
     /\ UNCHANGED trVars

(* --------------------------- slash commands --------------------------- *)
ClaimCommand(a, c) ==
  LET ticketRow == getTicketByChannel(tickets, c)
      member == Member(a)
  IN /\ c \in DOMAIN channels
     /\ IF ticketRow.id = 0
        THEN reply' = "notfound" /\ tickets' = tickets
        ELSE IF ~isStaff(member)
        THEN reply' = "denied" /\ tickets' = tickets
        ELSE IF Truthy(ticketRow.claimed_by)
        THEN reply' = "conflict" /\ tickets' = tickets
        ELSE /\ tickets' = updateTicketClaim(tickets, ticketRow.id, member.id)
             /\ \E sendOk \in BOOLEAN :
                  reply' = IF sendOk THEN "ok" ELSE "error"
     /\ UNCHANGED <<channels, nextChannel, pending, tasks, files, now>>
     /\ UNCHANGED trVars

UnclaimCommand(a, c) ==
  LET ticketRow == getTicketByChannel(tickets, c)
      member == Member(a)
  IN /\ c \in DOMAIN channels
     /\ IF ticketRow.id = 0
        THEN reply' = "notfound" /\ tickets' = tickets
        ELSE IF ~isStaff(member)
        THEN reply' = "denied" /\ tickets' = tickets
        ELSE IF ~Truthy(ticketRow.claimed_by)
        THEN reply' = "conflict" /\ tickets' = tickets
        ELSE /\ tickets' = unclaimTicket(tickets, ticketRow.id)
             /\ \E sendOk \in BOOLEAN :
                  reply' = IF sendOk THEN "released" ELSE "error"
     /\ UNCHANGED <<channels, nextChannel, pending, tasks, files, now>>
     /\ UNCHANGED trVars

CloseCommand(a, c) ==
  LET ticketRow == getTicketByChannel(tickets, c)
      member == Member(a)
  IN /\ c \in DOMAIN channels
     /\ IF ticketRow.id = 0
        THEN reply' = "notfound" /\ UNCHANGED <<tickets, tasks>>
        ELSE IF ~isStaff(member)
        THEN reply' = "denied" /\ UNCHANGED <<tickets, tasks>>
        ELSE /\ NumTasks < MaxTasks
             /\ tickets' = closeTicketRow(tickets, ticketRow.id)
             /\ tasks' = AddTask(Task("close", "notify",
                           ticketRow.id, ticketRow.channel_id,
                           ticketRow.owner_id, <<>>, "", NULL))
             /\ reply' = reply
     /\ UNCHANGED <<channels, nextChannel, pending, files, now>>
     /\ UNCHANGED trVars

TranscriptCommand(a, c) ==
  LET ticketRow == getTicketByChannel(tickets, c)
      member == Member(a)
  IN /\ c \in DOMAIN channels
     /\ IF ticketRow.id = 0
        THEN reply' = "notfound" /\ files' = files
        ELSE IF ~isStaff(member)
        THEN reply' = "denied" /\ files' = files
        ELSE \E ok \in BOOLEAN :
               /\ files' = transcriptWritten(files, c, ok)
               /\ reply' = IF ok THEN "ok" ELSE "error"
     /\ UNCHANGED <<tickets, channels, nextChannel, pending, tasks, now>>
     /\ UNCHANGED trVars

\* /rename: no ticket is looked up; the invoking channel is renamed
RenameCommand(a, c, newName) ==
  /\ c \in DOMAIN channels
  /\ IF ~isStaff(Member(a))
     THEN reply' = "denied" /\ channels' = channels
     ELSE \E ok \in BOOLEAN :
            IF ok
            THEN /\ channels' = [channels EXCEPT ![c].name = newName]
                 /\ reply' = "ok"
            ELSE /\ channels' = channels
                 /\ reply' = "error"
  /\ UNCHANGED <<tickets, nextChannel, pending, tasks, files, now>>
  /\ UNCHANGED trVars

\* /add: the overwrite is created, then the notice is sent; either one
\* failing ends the handler with the error reply
AddCommand(a, c, target) ==
  LET ticketRow == getTicketByChannel(tickets, c)
  IN /\ c \in DOMAIN channels
     /\ IF ~isStaff(Member(a))
        THEN reply' = "denied" /\ channels' = channels
        ELSE IF ticketRow.id = 0
        THEN reply' = "notfound" /\ channels' = channels
        ELSE \E ok \in BOOLEAN, sendOk \in BOOLEAN :
               IF ok
               THEN /\ channels' = [channels EXCEPT ![c].allow = @ \cup {target}]
                    /\ reply' = IF sendOk THEN "ok" ELSE "error"
               ELSE /\ channels' = channels
                    /\ reply' = "error"
     /\ UNCHANGED <<tickets, nextChannel, pending, tasks, files, now>>
     /\ UNCHANGED trVars

\* /remove: a failed deletion of the overwrite is ignored; a failed notice
\* ends the handler with the error reply
RemoveCommand(a, c, target) ==
  LET ticketRow == getTicketByChannel(tickets, c)
  IN /\ c \in DOMAIN channels
     /\ IF ~isStaff(Member(a))
        THEN reply' = "denied" /\ channels' = channels
        ELSE IF ticketRow.id = 0
        THEN reply' = "notfound" /\ channels' = channels
        ELSE \E ok \in BOOLEAN, sendOk \in BOOLEAN :
               /\ channels' = IF ok
                              THEN [channels EXCEPT ![c].allow = @ \ {target}]
                              ELSE channels
               /\ reply' = IF sendOk THEN "ok" ELSE "error"
     /\ UNCHANGED <<tickets, nextChannel, pending, tasks, files, now>>
     /\ UNCHANGED trVars

(* ------------------------ the close continuation ---------------------- *)
\* the closing notice in the channel (a failure is ignored) and the reply to
\* the invoker; a failed reply throws before setTimeout is reached
CloseNotify(t, replyOk) ==
  /\ t \in TaskSet /\ t.kind = "close" /\ t.pc = "notify"
  /\ IF replyOk
     THEN tasks' = MoveTask(t, "armed") /\ reply' = "ok"
     ELSE tasks' = DropTask(t) /\ reply' = "error"
  /\ UNCHANGED <<tickets, channels, nextChannel, pending, files, now>>
  /\ UNCHANGED trVars

\* faulty variant: the callback goes on to the deletion when makeTranscript
\* has thrown
TimerFireGoesOn(t, ok) ==
  /\ t \in TaskSet /\ t.kind = "close" /\ t.pc = "armed"
  /\ IF t.chan \notin DOMAIN channels
     THEN tasks' = DropTask(t) /\ files' = files
     ELSE /\ files' = transcriptWritten(files, t.chan, ok)
          /\ tasks' = MoveTask(t, "deliver")
  /\ UNCHANGED <<tickets, channels, nextChannel, pending, now, reply>>
  /\ UNCHANGED trVars

\* five seconds later: without the channel in the cache the callback returns;
\* else makeTranscript (ok: it resolves), whose failure is caught by the
\* callback's catch, which ends the callback
TimerFire(t, ok) ==
  /\ t \in TaskSet /\ t.kind = "close" /\ t.pc = "armed"
  /\ IF t.chan \notin DOMAIN channels
     THEN tasks' = DropTask(t) /\ files' = files
     ELSE /\ files' = transcriptWritten(files, t.chan, ok)
          /\ tasks' = IF ok THEN MoveTask(t, "deliver") ELSE DropTask(t)
  /\ UNCHANGED <<tickets, channels, nextChannel, pending, now, reply>>
  /\ UNCHANGED trVars

\* the staff log, the owner's DM (failures ignored), then ch.delete
DeliverAndDelete(t, deleteOk) ==
  /\ t \in TaskSet /\ t.kind = "close" /\ t.pc = "deliver"
  /\ channels' = IF deleteOk /\ t.chan \in DOMAIN channels
                 THEN [c \in DOMAIN channels \ {t.chan} |-> channels[c]]
                 ELSE channels
  /\ tasks' = DropTask(t)
  /\ UNCHANGED <<tickets, nextChannel, pending, files, now, reply>>
  /\ UNCHANGED trVars

\* The same three steps one by one. The transcript goes to the staff log;
\* a failed send is swallowed by its catch and the callback goes on.
\* faulty variant: a failed send to the staff log ends the callback
ArchiveSendThrows(t, ok) ==
  /\ t \in TaskSet /\ t.kind = "close" /\ t.pc = "deliver"
  /\ tasks' = IF ok
              THEN (tasks (-) SetToBag({t})) (+)
                   SetToBag({[t EXCEPT !.pc = "dm", !.sent = @ \cup {"archive"}]})
              ELSE DropTask(t)
  /\ UNCHANGED <<tickets, channels, nextChannel, pending, files, now, reply>>
  /\ UNCHANGED trVars

ArchiveSend(t, ok) ==
  /\ t \in TaskSet /\ t.kind = "close" /\ t.pc = "deliver"
  /\ tasks' = (tasks (-) SetToBag({t})) (+)
       SetToBag({[t EXCEPT !.pc = "dm",
                           !.sent = IF ok THEN @ \cup {"archive"} ELSE @]})
  /\ UNCHANGED <<tickets, channels, nextChannel, pending, files, now, reply>>
  /\ UNCHANGED trVars

\* the transcript goes to the ticket's owner by private message; a failed
\* fetch of the member or a failed send is swallowed
OwnerSend(t, ok) ==
  /\ t \in TaskSet /\ t.kind = "close" /\ t.pc = "dm"
  /\ tasks' = (tasks (-) SetToBag({t})) (+)
       SetToBag({[t EXCEPT !.pc = "delete",
                           !.sent = IF ok THEN @ \cup {"dm"} ELSE @]})
  /\ UNCHANGED <<tickets, channels, nextChannel, pending, files, now, reply>>
  /\ UNCHANGED trVars

\* ch.delete: the channel is gone, or the deletion fails, which the button's
\* callback swallows and the command's callback logs; the callback ends
ChannelDelete(t, deleteOk) ==
  /\ t \in TaskSet /\ t.kind = "close" /\ t.pc = "delete"
  /\ channels' = IF deleteOk /\ t.chan \in DOMAIN channels
                 THEN [c \in DOMAIN channels \ {t.chan} |-> channels[c]]
                 ELSE channels
  /\ tasks' = DropTask(t)
  /\ UNCHANGED <<tickets, nextChannel, pending, files, now, reply>>
  /\ UNCHANGED trVars

\* faulty variant: the timers outlive the process
RestartKeepsTimers ==
  /\ pending' = [u \in Requesters |-> Undefined]
  /\ tasks' = tasks
  /\ reply' = "none"
  /\ UNCHANGED <<tickets, channels, nextChannel, files, now>>
  /\ UNCHANGED trVars

\* the process stops and starts again: the map and the timers are gone
Restart ==
  /\ pending' = [u \in Requesters |-> Undefined]
  /\ tasks' = EmptyBag
  /\ reply' = "none"
  /\ UNCHANGED <<tickets, channels, nextChannel, files, now>>
  /\ UNCHANGED trVars

Create ==
  \/ \E u \in Requesters, i \in MenuIndices : SelectCategory(u, i)
  \/ \E u \in Requesters, topicInput \in Topics : ModalSubmit(u, topicInput)
  \/ \E t \in TaskSet, deferOk \in BOOLEAN, parentOk \in BOOLEAN :
       CallChannelCreate(t, deferOk, parentOk)
  \/ \E t \in TaskSet, ok \in BOOLEAN : ChannelCreated(t, ok)
  \/ \E t \in TaskSet, staffOk \in BOOLEAN, sendOk \in BOOLEAN :
       InsertAndIntroduce(t, staffOk, sendOk)

\* the creation flow of one requester who picks the first category
CreateOne ==
  \/ SelectCategory("usr", 0)
  \/ ModalSubmit("usr", "banned by mistake")
  \/ \E t \in TaskSet, deferOk \in BOOLEAN, parentOk \in BOOLEAN :
       CallChannelCreate(t, deferOk, parentOk)
  \/ \E t \in TaskSet, ok \in BOOLEAN : ChannelCreated(t, ok)
  \/ \E t \in TaskSet, staffOk \in BOOLEAN, sendOk \in BOOLEAN :
       InsertAndIntroduce(t, staffOk, sendOk)

Buttons ==
  \/ \E action \in Actions : ButtonNoId(action)
  \/ \E a \in Actors, id \in ButtonIds : ClaimButton(a, id)
  \/ \E a \in Actors, id \in ButtonIds : UnclaimButton(a, id)
  \/ \E a \in Actors, id \in ButtonIds : CloseButton(a, id)
  \/ \E a \in Actors, id \in ButtonIds : TranscriptButton(a, id)

Commands ==
  \/ \E a \in Actors, c \in DOMAIN channels : ClaimCommand(a, c)
  \/ \E a \in Actors, c \in DOMAIN channels : UnclaimCommand(a, c)
  \/ \E a \in Actors, c \in DOMAIN channels : CloseCommand(a, c)
  \/ \E a \in Actors, c \in DOMAIN channels : TranscriptCommand(a, c)
  \/ \E a \in Actors, c \in DOMAIN channels, n \in RenameNames :
       RenameCommand(a, c, n)
  \/ \E a \in Actors, c \in DOMAIN channels, u \in Targets : AddCommand(a, c, u)
  \/ \E a \in Actors, c \in DOMAIN channels, u \in Targets :
       RemoveCommand(a, c, u)

Continue ==
  \/ \E t \in TaskSet, replyOk \in BOOLEAN : CloseNotify(t, replyOk)
  \/ \E t \in TaskSet, ok \in BOOLEAN : TimerFire(t, ok)
  \/ \E t \in TaskSet, deleteOk \in BOOLEAN : DeliverAndDelete(t, deleteOk)

(* ----------------------- the transcript builder ------------------------ *)
\* makeTranscript's page size
PageLimit == 100

\* A message of a channel: its id (a snowflake, which orders messages by
\* creation time and gives createdAt), the author's tag ("" when the author
\* is missing), the content as the sequence of its lines (the text between
\* its line breaks; the empty content is one empty line) and the attachment
\* urls. Pattern 0 is a history of one-line messages without attachments,
\* pattern 1 mixes empty and two-line contents, missing authors and
\* attachments.
Message(k, pattern) ==
  [id |-> 10 + k,
   tag |-> IF pattern = 1 /\ k % 5 = 0 THEN "" ELSE "user#0001",
   content |-> IF pattern = 0 THEN <<"hello">>
               ELSE IF k % 2 = 0 THEN <<"">>
               ELSE IF k % 4 = 1 THEN <<"hello", "again">>
               ELSE <<"hello">>,
   attachments |-> IF pattern = 0 THEN <<>>
                   ELSE [j \in 1..(k % 3) |-> <<10 + k, j>>]]

History(n, pattern) == [k \in 1..n |-> Message(k, pattern)]

\* faulty variant: the accumulated pages are not reversed
ReverseNot(s) == s

Reverse(s) == [k \in 1..Len(s) |-> s[Len(s) + 1 - k]]

\* faulty variant: paging by position, the page after the messages
\* accumulated so far, counted from the newest
fetchPageSkipping(h, before, limit) ==
  LET n == IF Len(h) > Len(acc) THEN Len(h) - Len(acc) ELSE 0
      size == IF n < limit THEN n ELSE limit
  IN [k \in 1..size |-> h[n + 1 - k]]

\* channel.messages.fetch({limit, before}): the newest `limit` messages older
\* than `before` (all messages when before is not set), newest first
fetchPage(h, before, limit) ==
  LET older == SelectSeq(h, LAMBDA m : before = 0 \/ m.id < before)
      n == Len(older)
      size == IF n < limit THEN n ELSE limit
  IN [k \in 1..size |-> older[n + 1 - k]]

\* the lines of the file that one message gives: "[time] author: content"
\* and a line break, which is one line up to the content's first line break
\* and one more line for each further line of the content; then one
\* indented line per attachment
renderMessage(msg) ==
  <<[kind |-> "message", time |-> msg.id,
     author |-> IF Truthy(msg.tag) THEN msg.tag ELSE "Onbekend",
     text |-> msg.content[1]]>>
  \o [i \in 1..(Len(msg.content) - 1) |->
        [kind |-> "text", text |-> msg.content[i + 1]]]
  \o [j \in 1..Len(msg.attachments) |->
        [kind |-> "attachment", url |-> msg.attachments[j]]]

\* the loop "for (const msg of messages)": the lines of messages[lo..hi] in
\* order, joined by halves
RECURSIVE renderRange(_, _, _)
renderRange(messages, lo, hi) ==
  IF lo > hi THEN <<>>
  ELSE IF lo = hi THEN renderMessage(messages[lo])
  ELSE LET mid == (lo + hi) \div 2
       IN renderRange(messages, lo, mid) \o renderRange(messages, mid + 1, hi)

\* the file's text: the title line "Transcript van #name", an empty line,
\* then the messages
renderAll(messages) ==
  <<[kind |-> "title"], [kind |-> "blank"]>>
  \o renderRange(messages, 1, Len(messages))

\* the state the lifecycle variables keep while a transcript is built
LifeIdle ==
  /\ tickets = <<>>
  /\ channels = (General :> GeneralChannel)
  /\ nextChannel = 1
  /\ pending = [u \in Requesters |-> Undefined]
  /\ tasks = EmptyBag
  /\ files = {}
  /\ now = 1
  /\ reply = "none"

\* makeTranscript is called on a channel with some history
TranscriptInit ==
  /\ LifeIdle
  /\ \E n \in 0..MaxMsgs, pattern \in {0, 1} : hist = History(n, pattern)
  /\ acc = <<>> /\ lastId = 0 /\ tpc = "fetch" /\ fetches = 0 /\ out = <<>>

\* faulty variant: only an empty page ends the loop
FetchPageUntilEmpty ==
  /\ tpc = "fetch"
  /\ LET fetched == fetchPage(hist, lastId, PageLimit)
     IN /\ fetches' = fetches + 1
        /\ IF Len(fetched) = 0
           THEN /\ tpc' = "render"
                /\ UNCHANGED <<acc, lastId>>
           ELSE /\ acc' = acc \o fetched
                /\ lastId' = fetched[Len(fetched)].id
                /\ tpc' = "fetch"
  /\ UNCHANGED <<hist, out>>
  /\ UNCHANGED lifeVars

\* one turn of the loop: fetch a page; an empty page ends the loop; else the
\* page is appended, lastId is the id of its last message, and a page
\* shorter than the limit ends the loop
FetchPage ==
  /\ tpc = "fetch"
  /\ LET fetched == fetchPage(hist, lastId, PageLimit)
     IN /\ fetches' = fetches + 1
        /\ IF Len(fetched) = 0
           THEN /\ tpc' = "render"
                /\ UNCHANGED <<acc, lastId>>
           ELSE /\ acc' = acc \o fetched
                /\ lastId' = fetched[Len(fetched)].id
                /\ tpc' = IF Len(fetched) < PageLimit THEN "render" ELSE "fetch"
  /\ UNCHANGED <<hist, out>>
  /\ UNCHANGED lifeVars

\* a fetch rejects: makeTranscript throws
FetchFails ==
  /\ tpc = "fetch"
  /\ tpc' = "failed"
  /\ fetches' = fetches + 1
  /\ UNCHANGED <<hist, acc, lastId, out>>
  /\ UNCHANGED lifeVars

\* the messages are reversed, rendered and written to the file
RenderTranscript ==
  /\ tpc = "render"
  /\ out' = renderAll(Reverse(acc))
  /\ tpc' = "done"
  /\ UNCHANGED <<hist, acc, lastId, fetches>>
  /\ UNCHANGED lifeVars

TranscriptNext == FetchPage \/ FetchFails \/ RenderTranscript

TranscriptSpec == TranscriptInit /\ [][TranscriptNext]_vars

(* --------------- the channel changes while the builder runs ----------- *)
\* The builder awaits each page; between two pages members go on sending
\* and deleting messages. Each change happens at a later instant (now), and
\* a message sent at that instant has an id above every id given before.

\* the lengths of the histories the builder starts on: no message, one,
\* a full page, one more, two full pages, and the longest
EditLengths == {0, 1, PageLimit, PageLimit + 1, 2 * PageLimit, MaxMsgs}

EditInit ==
  /\ LifeIdle
  /\ \E n \in EditLengths : hist = History(n, 1)
  /\ acc = <<>> /\ lastId = 0 /\ tpc = "fetch" /\ fetches = 0 /\ out = <<>>

\* a member sends a message to the channel
MessageSent ==
  /\ tpc = "fetch"
  /\ now <= MaxEdits
  /\ hist' = Append(hist, Message(MaxMsgs + now, 1))
  /\ now' = now + 1
  /\ UNCHANGED <<tickets, channels, nextChannel, pending, tasks, files, reply>>
  /\ UNCHANGED <<acc, lastId, tpc, fetches, out>>

\* the positions of the history whose deletion is tried: the oldest and the
\* newest message, the message the next fetch is anchored at, and the
\* message just older than the anchor
DeletePositions ==
  {k \in 1..Len(hist) :
     \/ k \in {1, Len(hist)}
     \/ hist[k].id = lastId
     \/ k < Len(hist) /\ hist[k + 1].id = lastId}

\* the message at position k of the history is deleted
MessageDeleted(k) ==
  /\ tpc = "fetch"
  /\ now <= MaxEdits
  /\ k \in DeletePositions
  /\ hist' = SubSeq(hist, 1, k - 1) \o SubSeq(hist, k + 1, Len(hist))
  /\ now' = now + 1
  /\ UNCHANGED <<tickets, channels, nextChannel, pending, tasks, files, reply>>
  /\ UNCHANGED <<acc, lastId, tpc, fetches, out>>

EditNext ==
  \/ FetchPage
  \/ FetchFails
  \/ RenderTranscript
  \/ MessageSent
  \/ \E k \in 1..(MaxMsgs + MaxEdits) : MessageDeleted(k)

EditSpec == EditInit /\ [][EditNext]_vars

\* the handlers that act on tickets, on the table earlier runs left
Next == Buttons \/ Commands \/ Continue \/ Restart

Spec == Init /\ [][Next]_vars

\* The same handlers in a process that is not restarted and whose replies
\* and channel deletions succeed. The event loop runs every continuation
\* whose await has resolved and every timer that is due: for each ticket of
\* the table and each position, the step of a Close of that ticket at that
\* position is taken if it stays possible.
Countdown ==
  \/ \E t \in TaskSet : CloseNotify(t, TRUE)
  \/ \E t \in TaskSet, ok \in BOOLEAN : TimerFire(t, ok)
  \/ \E t \in TaskSet : DeliverAndDelete(t, TRUE)

CountdownOf(tid, pc) ==
  \E t \in TaskSet :
    /\ t.tid = tid /\ t.pc = pc
    /\ \/ CloseNotify(t, TRUE)
       \/ \E ok \in BOOLEAN : TimerFire(t, ok)
       \/ DeliverAndDelete(t, TRUE)

NoRestartNext == Buttons \/ Commands \/ Countdown

NoRestartSpec ==
  /\ Init /\ [][NoRestartNext]_vars
  /\ \A tid \in {1, 2}, pc \in {"notify", "armed", "deliver"} :
       WF_vars(CountdownOf(tid, pc))

\* the handlers that write the table, on the table earlier runs left
ClaimNext ==
  \/ \E a \in Actors, id \in ButtonIds : ClaimButton(a, id)
  \/ \E a \in Actors, id \in ButtonIds : UnclaimButton(a, id)
  \/ \E a \in Actors, id \in ButtonIds : CloseButton(a, id)
  \/ \E a \in Actors, c \in DOMAIN channels : ClaimCommand(a, c)
  \/ \E a \in Actors, c \in DOMAIN channels : UnclaimCommand(a, c)
  \/ \E a \in Actors, c \in DOMAIN channels : CloseCommand(a, c)
  \/ Continue
  \/ Restart

ClaimSpec == Init /\ [][ClaimNext]_vars

\* the creation of tickets, from an empty table
CreateNext == Create \/ Restart

CreateSpec == CreateInit /\ [][CreateNext]_vars

\* every handler, from an empty table
LifeNext == CreateOne \/ Buttons \/ Commands \/ Continue \/ Restart

LifeSpec == CreateInit /\ [][LifeNext]_vars

\* the manual transcript and the membership edits, next to Close and its
\* continuation, on the table earlier runs left
ManualNext ==
  \/ \E a \in Actors, id \in ButtonIds : TranscriptButton(a, id)
  \/ \E a \in Actors, c \in DOMAIN channels : TranscriptCommand(a, c)
  \/ \E a \in Actors, c \in DOMAIN channels, u \in Targets : AddCommand(a, c, u)
  \/ \E a \in Actors, c \in DOMAIN channels, u \in Targets :
       RemoveCommand(a, c, u)
  \/ \E a \in Actors, id \in ButtonIds : CloseButton(a, id)
  \/ \E a \in Actors, c \in DOMAIN channels : CloseCommand(a, c)
  \/ Continue

ManualSpec == Init /\ [][ManualNext]_vars

\* Two Claim interactions on one ticket, followed await by await. A call is
\* the handler of one interaction: the form it came in (button or command),
\* the actor, the ticket id of the button or the channel of the command,
\* and its position: arrived (the handler has not run yet), notice (the row
\* is written and the notice in the channel awaited), reply (the reply to
\* the actor is next), accepted or rejected (the handler has returned).
ClaimCall(pc, form, actor, tid, chan) ==
  [kind |-> "claim", pc |-> pc, form |-> form, actor |-> actor,
   tid |-> tid, chan |-> chan]

ClaimCalls == {t \in TaskSet : t.kind = "claim"}

\* faulty variant: the handler does not test claimed_by
ClaimRunsUntested(t) ==
  LET ticketRow == IF t.form = "button" THEN getTicketById(tickets, t.tid)
                   ELSE getTicketByChannel(tickets, t.chan)
      member == Member(t.actor)
  IN /\ t \in TaskSet /\ t.kind = "claim" /\ t.pc = "arrived"
     /\ IF ticketRow.id = 0
        THEN /\ reply' = "notfound" /\ tickets' = tickets
             /\ tasks' = MoveTask(t, "rejected")
        ELSE IF ~isStaff(member)
        THEN /\ reply' = "denied" /\ tickets' = tickets
             /\ tasks' = MoveTask(t, "rejected")
        ELSE /\ tickets' = updateTicketClaim(tickets, ticketRow.id, member.id)
             /\ tasks' = MoveTask(t, "notice")
             /\ reply' = reply
     /\ UNCHANGED <<channels, nextChannel, pending, files, now>>
     /\ UNCHANGED trVars

\* the handler runs from the lookup of the record to its first await: the
\* tests, and for a staff actor on an unclaimed ticket the UPDATE
ClaimRuns(t) ==
  LET ticketRow == IF t.form = "button" THEN getTicketById(tickets, t.tid)
                   ELSE getTicketByChannel(tickets, t.chan)
      member == Member(t.actor)
  IN /\ t \in TaskSet /\ t.kind = "claim" /\ t.pc = "arrived"
     /\ IF ticketRow.id = 0
        THEN /\ reply' = "notfound" /\ tickets' = tickets
             /\ tasks' = MoveTask(t, "rejected")
        ELSE IF ~isStaff(member)
        THEN /\ reply' = "denied" /\ tickets' = tickets
             /\ tasks' = MoveTask(t, "rejected")
        ELSE IF Truthy(ticketRow.claimed_by)
        THEN /\ reply' = "conflict" /\ tickets' = tickets
             /\ tasks' = MoveTask(t, "rejected")
        ELSE /\ tickets' = updateTicketClaim(tickets, ticketRow.id, member.id)
             /\ tasks' = MoveTask(t, "notice")
             /\ reply' = reply
     /\ UNCHANGED <<channels, nextChannel, pending, files, now>>
     /\ UNCHANGED trVars

\* the notice in the channel has settled: the button swallows a failure,
\* the command throws, which ends the handler with the error reply
ClaimNotice(t, sendOk) ==
  /\ t \in TaskSet /\ t.kind = "claim" /\ t.pc = "notice"
  /\ IF t.form = "command" /\ ~sendOk
     THEN tasks' = MoveTask(t, "accepted") /\ reply' = "error"
     ELSE tasks' = MoveTask(t, "reply") /\ reply' = reply
  /\ UNCHANGED <<tickets, channels, nextChannel, pending, files, now>>
  /\ UNCHANGED trVars

\* the reply to the actor whose claim was written
ClaimReply(t) ==
  /\ t \in TaskSet /\ t.kind = "claim" /\ t.pc = "reply"
  /\ tasks' = MoveTask(t, "accepted")
  /\ reply' = "ok"
  /\ UNCHANGED <<tickets, channels, nextChannel, pending, files, now>>
  /\ UNCHANGED trVars

\* a staff actor who has no Claim under way presses the Claim button of a
\* ticket or issues /claim in its channel: the interaction is delivered
ClaimArrives(a, form, id) ==
  LET chan == tickets[id].channel_id
  IN /\ \A t \in ClaimCalls : t.actor # a
     /\ form = "command" => chan \in DOMAIN channels
     /\ tasks' = AddTask(ClaimCall("arrived", form, a, id, chan))
     /\ UNCHANGED <<tickets, channels, nextChannel, pending, files, now, reply>>
     /\ UNCHANGED trVars

ClaimRaceNext ==
  \/ \E a \in {"adm", "stf"}, form \in {"button", "command"},
        id \in 1..Len(tickets) : ClaimArrives(a, form, id)
  \/ \E t \in TaskSet : ClaimRuns(t)
  \/ \E t \in TaskSet, sendOk \in BOOLEAN : ClaimNotice(t, sendOk)
  \/ \E t \in TaskSet : ClaimReply(t)

ClaimRaceSpec == Init /\ [][ClaimRaceNext]_vars

\* Close by staff and its callback, delivery by delivery, on the table
\* earlier runs left
DeliverNext ==
  \/ \E a \in Actors, id \in ButtonIds : CloseButton(a, id)
  \/ \E a \in Actors, c \in DOMAIN channels : CloseCommand(a, c)
  \/ \E t \in TaskSet, replyOk \in BOOLEAN : CloseNotify(t, replyOk)
  \/ \E t \in TaskSet, ok \in BOOLEAN : TimerFire(t, ok)
  \/ \E t \in TaskSet, ok \in BOOLEAN : ArchiveSend(t, ok)
  \/ \E t \in TaskSet, ok \in BOOLEAN : OwnerSend(t, ok)
  \/ \E t \in TaskSet, deleteOk \in BOOLEAN : ChannelDelete(t, deleteOk)

DeliverSpec == Init /\ [][DeliverNext]_vars

\* the handlers that look a ticket record up (all but /rename), with the
\* continuation of Close, on the table earlier runs left
LookupNext ==
  \/ Buttons
  \/ \E a \in Actors, c \in DOMAIN channels : ClaimCommand(a, c)
  \/ \E a \in Actors, c \in DOMAIN channels : UnclaimCommand(a, c)
  \/ \E a \in Actors, c \in DOMAIN channels : CloseCommand(a, c)
  \/ \E a \in Actors, c \in DOMAIN channels : TranscriptCommand(a, c)
  \/ \E a \in Actors, c \in DOMAIN channels, u \in Targets : AddCommand(a, c, u)
  \/ \E a \in Actors, c \in DOMAIN channels, u \in Targets :
       RemoveCommand(a, c, u)
  \/ Continue

LookupSpec == Init /\ [][LookupNext]_vars

\* Two creations in flight at once. Both requesters have selected the first
\* category and submitted; the two handlers wait for deferReply. The guild
\* holds, besides the general channel, channels that bear some of the names
\* base, base-1, ..., base-MaxSuffix of requester usr's ticket channel (left
\* by earlier tickets or made by hand).
TakenChannel(name) ==
  [name |-> name, allow |-> {"role:Staff"}, deny |-> {"@everyone"},
   controls |-> {}]

ConcurrentInit ==
  /\ tickets = <<>>
  /\ \E taken \in SUBSET (0..MaxSuffix) :
       LET base == channelBaseOf(categoryNameOf(0), Member("usr"))
       IN channels = (General :> GeneralChannel) @@
            [c \in {General + 1 + k : k \in taken} |->
               TakenChannel(IF c = General + 1 THEN base
                            ELSE Append(base, ToString(c - General - 1)))]
  /\ nextChannel = 1
  /\ pending = [u \in Requesters |-> Undefined]
  /\ \E first \in Requesters, second \in Requesters :
       tasks = SetToBag({Task("create", "deferring", 0, 0, first, <<>>,
                              DecimalStr(0), NULL)})
               (+) SetToBag({Task("create", "deferring", 0, 0, second, <<>>,
                                  DecimalStr(0), NULL)})
  /\ files = {}
  /\ now = 1
  /\ reply = "modal"
  /\ TranscriptIdle

ConcurrentNext ==
  \/ \E t \in TaskSet, deferOk \in BOOLEAN, parentOk \in BOOLEAN :
       CallChannelCreate(t, deferOk, parentOk)
  \/ \E t \in TaskSet, ok \in BOOLEAN : ChannelCreated(t, ok)
  \/ \E t \in TaskSet, staffOk \in BOOLEAN, sendOk \in BOOLEAN :
       InsertAndIntroduce(t, staffOk, sendOk)

ConcurrentSpec == ConcurrentInit /\ [][ConcurrentNext]_vars

(* ====================== properties of the program ===================== *)
\* staff capability as the specification states it: an administrator or a
\* bearer of the staff role
StaffActors == {"adm", "stf"}
TicketIds == 1..Len(tickets)
\* the ids of the records of channel c
RecordsOf(c) == {id \in TicketIds : tickets[id].channel_id = c}

(* ------------------------------- C1 ----------------------------------- *)
\* what a claim by actor a on record id must do
ClaimOutcome(a, id) ==
  IF a \in StaffActors /\ tickets[id].claimed_by = NULL
  THEN tickets' = [tickets EXCEPT ![id].claimed_by = a]
  ELSE tickets' = tickets /\ reply' \in {"denied", "conflict"}

\* C1: for the Claim button and the /claim command alike, a claim by a staff
\* actor on a ticket whose claimedBy is empty sets claimedBy to the actor's
\* id and changes nothing else in the table; a claim by an actor without
\* staff capability, or on a ticket already claimed, is rejected and leaves
\* every record exactly as it was.
C1_ClaimContract ==
  [][ /\ \A a \in Actors, id \in TicketIds :
           ClaimButton(a, id) => ClaimOutcome(a, id)
      /\ \A a \in Actors, c \in DOMAIN channels : \A id \in RecordsOf(c) :
           ClaimCommand(a, c) => ClaimOutcome(a, id) ]_vars

\* a claim was accepted on ticket 1 and a later claim on it was rejected
C1_Witness ==
  /\ tickets[1].claimed_by = "stf"
  /\ tickets[1].status = "open"
  /\ reply = "conflict"

(* ------------------------------- C2 ----------------------------------- *)
\* the tasks a Close has left: its notice and reply, its timer, its delivery
CloseTasks == {t \in TaskSet : t.kind = "close"}

\* C2: a Close by a staff actor, as button or as command, sets the status to
\* closed in the step that accepts it, so whenever a notice, a reply, a
\* transcript or a delivery of a Close is still to come the status is closed
\* already; and no step of the continuation, failed or not, changes the
\* table: the status is never set back to open.
C2_CloseSynchronous ==
  /\ [](\A t \in CloseTasks : \E id \in TicketIds :
          tickets[id].id = t.tid /\ tickets[id].status = "closed")
  /\ [][ /\ \A a \in StaffActors, id \in TicketIds :
              CloseButton(a, id) =>
                tickets' = [tickets EXCEPT ![id].status = "closed"]
         /\ \A a \in StaffActors, c \in DOMAIN channels : \A id \in RecordsOf(c) :
              CloseCommand(a, c) =>
                tickets' = [tickets EXCEPT ![id].status = "closed"]
         /\ \A t \in CloseTasks, ok \in BOOLEAN :
              (CloseNotify(t, ok) \/ TimerFire(t, ok) \/ DeliverAndDelete(t, ok))
                => tickets' = tickets ]_vars

\* ticket 1 was closed, its transcript was written, and the deletion of its
\* channel is still to come
C2_Witness ==
  \E t \in CloseTasks :
    /\ t.pc = "deliver" /\ t.tid = 1
    /\ tickets[1].status = "closed"
    /\ 1 \in DOMAIN channels

(* ------------------------------- C3 ----------------------------------- *)
\* C3: in the delayed step of a Close, when the channel is still there and
\* building the transcript fails, the step goes on to the deletion of the
\* channel: the task of this Close is at its delivery-and-deletion position
\* afterwards.
C3_DeletionAfterTranscriptFailure ==
  [][ \A t \in CloseTasks :
        (TimerFire(t, FALSE) /\ t.chan \in DOMAIN channels)
          => \E u \in BagToSet(tasks') :
               u.kind = "close" /\ u.tid = t.tid /\ u.pc = "deliver" ]_vars

(* ------------------------------- C4 ----------------------------------- *)
\* C4: a record is created with status open, a status is open or closed, no
\* record leaves the table, and a step from a state where a record's status
\* is closed leads to a state where it is closed.
C4_StatusMonotonic ==
  /\ [](\A id \in TicketIds : tickets[id].status \in {"open", "closed"})
  /\ [][ /\ Len(tickets') >= Len(tickets)
         /\ \A id \in TicketIds :
              tickets[id].status = "closed" => tickets'[id].status = "closed"
         /\ \A id \in (Len(tickets) + 1)..Len(tickets') :
              tickets'[id].status = "open" ]_vars

\* the created ticket was closed twice and claimed after that
C4_Witness ==
  /\ Len(tickets) = 1
  /\ tickets[1].status = "closed"
  /\ tickets[1].claimed_by = "adm"
  /\ \E t \in CloseTasks : CopiesIn(t, tasks) = 2

(* ------------------------------- C5 ----------------------------------- *)
\* what an unclaim by actor a on record id must do
UnclaimOutcome(a, id) ==
  IF a \in StaffActors /\ tickets[id].claimed_by # NULL
  THEN tickets' = [tickets EXCEPT ![id].claimed_by = NULL]
  ELSE tickets' = tickets /\ reply' \in {"denied", "conflict"}

\* C5: an unclaim (button or command) by a staff actor on a claimed ticket
\* clears claimedBy and changes nothing else; on a ticket whose claimedBy is
\* empty, or by an actor without staff capability, it is rejected and the
\* table is unchanged; and in every state, claiming an unclaimed ticket and
\* then unclaiming it gives back the table as it was before the claim.
C5_UnclaimContract ==
  /\ [](\A a \in StaffActors, id \in TicketIds :
          tickets[id].claimed_by = NULL =>
            unclaimTicket(updateTicketClaim(tickets, id, a), id) = tickets)
  /\ [][ /\ \A a \in Actors, id \in TicketIds :
              UnclaimButton(a, id) => UnclaimOutcome(a, id)
         /\ \A a \in Actors, c \in DOMAIN channels : \A id \in RecordsOf(c) :
              UnclaimCommand(a, c) => UnclaimOutcome(a, id) ]_vars

\* ticket 1 was claimed and released again while ticket 2 stays claimed
C5_Witness ==
  /\ tickets[1].claimed_by = NULL
  /\ tickets[2].claimed_by = "adm"
  /\ reply = "released"

(* ------------------------------- C6 ----------------------------------- *)
\* C6: in a process that is not restarted, once a Close of ticket 1 has been
\* accepted while its channel exists, a state follows in which the channel
\* is deleted and the record is there with status closed, whatever other
\* handlers run in between.
C6_ChannelEventuallyDeleted ==
  (\E t \in CloseTasks : t.tid = 1 /\ t.pc = "notify" /\ 1 \in DOMAIN channels)
    ~> (1 \notin DOMAIN channels /\ tickets[1].status = "closed")

(* ------------------------------- C7 ----------------------------------- *)
\* a step of a staff-only action taken by actor a
StaffOnlyStep(a) ==
  \/ \E id \in ButtonIds :
       \/ ClaimButton(a, id) \/ UnclaimButton(a, id)
       \/ CloseButton(a, id) \/ TranscriptButton(a, id)
  \/ \E c \in DOMAIN channels :
       \/ ClaimCommand(a, c) \/ UnclaimCommand(a, c)
       \/ CloseCommand(a, c) \/ TranscriptCommand(a, c)
       \/ \E n \in RenameNames : RenameCommand(a, c, n)
       \/ \E u \in Targets : AddCommand(a, c, u) \/ RemoveCommand(a, c, u)

\* C7: a step of a staff-only action (claim, unclaim, close, transcript as
\* button or command, rename, add, remove) by an actor without staff
\* capability leaves the table, the channels (their existence, names and
\* permissions), the timers and continuations, and the transcript files as
\* they were.
C7_NonStaffNoChange ==
  [][ \A a \in Actors \ StaffActors :
        UNCHANGED <<tickets, channels, tasks, files>> \/ ~StaffOnlyStep(a) ]_vars

\* a non-staff actor was refused on the open, claimed ticket 1 while a Close
\* of ticket 2 is in flight
C7_Witness ==
  /\ reply = "denied"
  /\ tickets[1].status = "open" /\ tickets[1].claimed_by = "adm"
  /\ \E t \in CloseTasks : t.tid = 2

(* ------------------------------- C8 ----------------------------------- *)
\* the tickets of requester u in table tk plus u's creations in flight in ts
Begun(tk, ts, u) ==
  LET mine == {t \in BagToSet(ts) : t.kind = "create" /\ t.owner = u}
  IN Cardinality({id \in 1..Len(tk) : tk[id].owner_id = u})
       + BagCardinality([t \in mine |-> ts[t]])

\* C8: after a topic submission by requester u the pending map has no entry
\* for u, whether the submission was accepted or not; a submission without
\* a pending entry changes neither the table nor the channels and starts no
\* creation; and the tickets of u together with u's creations in flight
\* grow by at most one in a step, and only in a step that consumes u's
\* pending entry, so one selection leads to at most one ticket.
C8_PendingConsumed ==
  [][ /\ \A u \in Requesters, tp \in Topics :
           ModalSubmit(u, tp) =>
             /\ pending'[u] = Undefined
             /\ pending[u] = Undefined =>
                  UNCHANGED <<tickets, channels, nextChannel, tasks>>
      /\ \A u \in Requesters :
           Begun(tickets', tasks', u) > Begun(tickets, tasks, u) =>
             /\ Begun(tickets', tasks', u) = Begun(tickets, tasks, u) + 1
             /\ pending[u] # Undefined /\ pending'[u] = Undefined ]_vars

\* a ticket was created and a further submission without a new selection
\* was refused
C8_Witness ==
  /\ Len(tickets) = 1
  /\ reply = "expired"
  /\ \A u \in Requesters : pending[u] = Undefined

(* ------------------------------- C9 ----------------------------------- *)
\* the decimal numerals of the menu's option values
Numerals ==
  <<"0", "1", "2", "3", "4", "5", "6", "7", "8", "9", "10", "11", "12", "13",
    "14", "15", "16">>
IndexOf(chosen) == CHOOSE i \in 0..16 : Numerals[i + 1] = chosen
CatalogEntry(i) == CATEGORIES[i + 1]

\* task v carries the request of task t
SameRequest(t, v) ==
  v.kind = "create" /\ v.owner = t.owner /\ v.chosen = t.chosen
    /\ v.topic = t.topic

\* C9: a selection of index i by requester u is kept as the numeral of i; a
\* submission of topic tp then starts one creation for u with that numeral
\* and that topic (no topic when tp is empty); when no call fails the
\* creation makes one channel, then appends exactly one record with owner
\* u, status open, claimedBy empty, the i-th catalog entry as category, the
\* topic, and the new channel's id as channelId, and posts in that channel
\* the four controls claim, unclaim, close and transcript carrying the
\* record's id.
C9_CreationResult ==
  [][ /\ \A u \in Requesters, i \in MenuIndices :
           SelectCategory(u, i) => pending'[u] = Numerals[i + 1]
      /\ \A u \in Requesters, tp \in Topics :
           (ModalSubmit(u, tp) /\ pending[u] # Undefined) =>
             \E v \in BagToSet(tasks') :
               /\ tasks' = tasks (+) SetToBag({v})
               /\ v.kind = "create" /\ v.owner = u /\ v.chosen = pending[u]
               /\ v.topic = IF tp = "" THEN NULL ELSE tp
      /\ \A t \in TaskSet :
           CallChannelCreate(t, TRUE, TRUE) =>
             \E v \in BagToSet(tasks') :
               /\ tasks' = (tasks (-) SetToBag({t})) (+) SetToBag({v})
               /\ SameRequest(t, v)
      /\ \A t \in TaskSet :
           ChannelCreated(t, TRUE) =>
             \E v \in BagToSet(tasks'), c \in DOMAIN channels' :
               /\ tasks' = (tasks (-) SetToBag({t})) (+) SetToBag({v})
               /\ SameRequest(t, v) /\ v.chan = c
               /\ c \notin DOMAIN channels
               /\ DOMAIN channels' = DOMAIN channels \cup {c}
               /\ tickets' = tickets
      /\ \A t \in TaskSet :
           InsertAndIntroduce(t, TRUE, TRUE) =>
             LET id == Len(tickets) + 1
             IN /\ Len(tickets') = id
                /\ SubSeq(tickets', 1, Len(tickets)) = tickets
                /\ tickets'[id].id = id
                /\ tickets'[id].owner_id = t.owner
                /\ tickets'[id].status = "open"
                /\ tickets'[id].claimed_by = NULL
                /\ tickets'[id].category = CatalogEntry(IndexOf(t.chosen))
                /\ tickets'[id].topic = t.topic
                /\ tickets'[id].channel_id = t.chan
                /\ t.chan \in DOMAIN channels'
                /\ channels'[t.chan].controls =
                     {<<action, id>> : action \in Actions} ]_vars

\* the scenario of the specification: index 2 and the topic "banned by
\* mistake" gave an open, unclaimed ticket of category Unban Aanvraag Ingame
\* whose channel shows the four controls
C9_Witness ==
  /\ Len(tickets) = 1
  /\ tickets[1].owner_id = "usr"
  /\ tickets[1].category = "Unban Aanvraag Ingame"
  /\ tickets[1].topic = "banned by mistake"
  /\ tickets[1].status = "open" /\ tickets[1].claimed_by = NULL
  /\ tickets[1].channel_id \in DOMAIN channels
  /\ Cardinality(channels[tickets[1].channel_id].controls) = 4
  /\ reply = "ok"

(* ------------------------------- C10 ---------------------------------- *)
\* the positions of the output's message lines, in order
MessageLines ==
  SelectSeq([p \in 1..Len(out) |-> p], LAMBDA p : out[p].kind = "message")

\* the lines that follow the k-th message line up to the next message line
LinesAfter(k) ==
  SubSeq(out, MessageLines[k] + 1,
         IF k < Len(MessageLines) THEN MessageLines[k + 1] - 1 ELSE Len(out))

\* the lines of message msg's attachments
AttachmentLines(msg) ==
  [j \in 1..Len(msg.attachments) |->
     [kind |-> "attachment", url |-> msg.attachments[j]]]

\* the further lines of a content that holds line breaks
FurtherLines(msg) ==
  [i \in 1..(Len(msg.content) - 1) |->
     [kind |-> "text", text |-> msg.content[i + 1]]]

\* every message of the history has its message line, exactly once, in send
\* order, oldest first, after the title and the empty line
EveryMessageOnceInOrder ==
  /\ Len(out) >= 2 /\ out[1].kind = "title" /\ out[2].kind = "blank"
  /\ Len(MessageLines) = Len(hist)
  /\ \A k \in 1..Len(hist) : out[MessageLines[k]].time = hist[k].id
  /\ IF Len(hist) = 0 THEN Len(out) = 2 ELSE MessageLines[1] = 3

Candidate(base, k) == IF k = 0 THEN base ELSE Append(base, Numerals[k + 1])

\* the base name of the ticket channel that creation t asks for
BaseOf(t) ==
  channelBaseOf(CatalogEntry(IndexOf(t.chosen)), Member(t.owner))

\* C11: when a creation comes to choose its channel name, with the set of
\* channel names visible at that moment, the name it takes to the platform
\* is the first of base, base-1, base-2, ... that is not in the set, and so
\* is not a name of the set.
C11_FirstUnusedName ==
  [][ \A t \in TaskSet :
        CallChannelCreate(t, TRUE, TRUE) =>
          \E v \in BagToSet(tasks'), k \in 0..Cardinality(ChannelNames) :
            /\ tasks' = (tasks (-) SetToBag({t})) (+) SetToBag({v})
            /\ v.pc = "creating"
            /\ v.name = Candidate(BaseOf(t), k)
            /\ v.name \notin ChannelNames
            /\ \A j \in 0..(k - 1) : Candidate(BaseOf(t), j) \in ChannelNames
    ]_vars

\* base and base-2 were taken and a creation of usr has chosen base-1; then
\* base-1 was taken too and the other creation of usr has chosen base-3
C11_Witness ==
  LET base == BaseOf(Task("create", "deferring", 0, 0, "usr", <<>>, "0", NULL))
  IN /\ {base, Append(base, "1"), Append(base, "2")} \subseteq ChannelNames
     /\ \E c \in DOMAIN channels :
          channels[c].name = Append(base, "1") /\ c < General
     /\ \E t \in TaskSet : t.pc = "creating" /\ t.name = Append(base, "3")

(* ------------------------------- C12 ---------------------------------- *)
\* C12: a step of the manual transcript, as button or as command, leaves
\* every ticket record as it was, deletes no channel and arms no timer, and
\* a step of /add or /remove leaves every ticket record as it was, whatever
\* the status of the ticket is and whether the step succeeds or not.
C12_ManualActionsFrame ==
  [][ /\ \A a \in Actors, id \in ButtonIds :
           TranscriptButton(a, id) =>
             /\ tickets' = tickets
             /\ DOMAIN channels' = DOMAIN channels
             /\ tasks' = tasks
      /\ \A a \in Actors, c \in DOMAIN channels :
           TranscriptCommand(a, c) =>
             /\ tickets' = tickets
             /\ DOMAIN channels' = DOMAIN channels
             /\ tasks' = tasks
      /\ \A a \in Actors, c \in DOMAIN channels, u \in Targets :
           (AddCommand(a, c, u) \/ RemoveCommand(a, c, u)) =>
             tickets' = tickets ]_vars

\* ticket 1 was never closed, yet its transcript is on disk and its owner
\* was removed from the channel: a manual transcript and a /remove have
\* acted on it; and ticket 2 stays closed
C12_Witness ==
  /\ tickets[1].status = "open" /\ tickets[2].status = "closed"
  /\ 1 \in files
  /\ 1 \in DOMAIN channels /\ "usr" \notin channels[1].allow
  /\ tasks = EmptyBag

(* ------------------------------- C13 ---------------------------------- *)
\* the fields of a record that are set at its creation for good
FixedFields ==
  {"id", "guild_id", "channel_id", "owner_id", "category", "topic",
   "created_at"}

\* C13: no step removes a record from the table, and a step changes of a
\* record at most claimedBy and status: id, guildId, channelId, ownerId,
\* category, topic and createdAt keep the values they got at creation, also
\* in the steps that delete the ticket's channel and after them.
C13_RecordsImmutable ==
  [][ /\ Len(tickets') >= Len(tickets)
      /\ \A id \in TicketIds : \A f \in FixedFields :
           tickets'[id][f] = tickets[id][f] ]_vars

\* the created ticket was claimed and closed and its channel was deleted
\* after the transcript; the record still holds its creation values
C13_Witness ==
  /\ Len(tickets) = 1
  /\ tickets[1] = [id |-> 1, guild_id |-> GuildId, channel_id |-> 1,
                   owner_id |-> "usr", claimed_by |-> "stf",
                   status |-> "closed",
                   category |-> "Unban Aanvraag Anti Cheat",
                   topic |-> "banned by mistake", created_at |-> 1]
  /\ 1 \notin DOMAIN channels
  /\ 1 \in files

(* ------------------------------- C14 ---------------------------------- *)
\* the records of channel c that are not closed
OpenRecordsOf(c) == {id \in RecordsOf(c) : tickets[id].status # "closed"}

\* C14: in every reachable state, also while the creations of several
\* requesters interleave, a channel id is the channelId of at most one
\* record that is not closed.
C14_OneOpenTicketPerChannel ==
  \A id \in TicketIds :
    Cardinality(OpenRecordsOf(tickets[id].channel_id)) <= 1

\* the creations of usr and gst have interleaved: gst's channel was created
\* first and usr's record was inserted first; both tickets are open, each
\* on its own channel
C14_Witness ==
  /\ Len(tickets) = 2
  /\ tickets[1].owner_id = "usr" /\ tickets[2].owner_id = "gst"
  /\ tickets[1].channel_id = 2 /\ tickets[2].channel_id = 1
  /\ tickets[1].status = "open" /\ tickets[2].status = "open"
  /\ {1, 2} \subseteq DOMAIN channels

(* ------------------------------- C15 ---------------------------------- *)
\* a step of actor a that names a ticket id outside the table (buttons) or
\* is issued on a channel without record (commands)
NoRecordStep(a) ==
  \/ \E id \in ButtonIds \ TicketIds :
       \/ ClaimButton(a, id) \/ UnclaimButton(a, id)
       \/ CloseButton(a, id) \/ TranscriptButton(a, id)
  \/ \E c \in DOMAIN channels :
       /\ RecordsOf(c) = {}
       /\ \/ ClaimCommand(a, c) \/ UnclaimCommand(a, c)
          \/ CloseCommand(a, c) \/ TranscriptCommand(a, c)
          \/ \E u \in Targets : AddCommand(a, c, u) \/ RemoveCommand(a, c, u)

\* C15: a button whose ticket id is not in the table, and /claim, /unclaim,
\* /close, /transcript, /add or /remove on a channel without ticket record,
\* is answered with a rejection (no such ticket; or, for an actor without
\* staff capability, no permission) and changes nothing: the table, the
\* channels with their permissions, the transcript files and the timers
\* and continuations stay as they were.
C15_NoRecordRejected ==
  [][ \A a \in Actors :
        \/ /\ UNCHANGED <<tickets, channels, nextChannel, pending, tasks,
                          files, now>>
           /\ \/ reply' = "notfound"
              \/ reply' = "denied" /\ a \notin StaffActors
        \/ ~NoRecordStep(a) ]_vars

\* an action without record was rejected while ticket 1 is open and
\* claimed and a Close of ticket 2 waits for its timer
C15_Witness ==
  /\ reply = "notfound"
  /\ tickets[1].status = "open" /\ tickets[1].claimed_by = "stf"
  /\ \E t \in CloseTasks : t.tid = 2 /\ t.pc = "armed"
  /\ CopiesIn(Task("close", "armed", 2, 2, "gst", <<>>, "", NULL), tasks) = 1
  /\ NumTasks = 1

(* ------------------------------- C16 ---------------------------------- *)
\* the callback of task t stands at position pc afterwards
GoesOnAt(t, pc) ==
  \E u \in BagToSet(tasks') :
    /\ u.kind = "close" /\ u.tid = t.tid /\ u.chan = t.chan /\ u.pc = pc
    /\ CopiesIn(u, tasks') > CopiesIn(u, tasks)

\* C16: in the delayed step of a Close, once the transcript is built, the
\* delivery to the staff log is followed by the private message to the
\* owner, failed or not, and that message is followed by the deletion of
\* the channel, failed or not (so also after both deliveries failed); a
\* deletion that fails leaves the channel, and the status of the ticket
\* stays closed in each of these steps.
C16_DeliveriesIndependent ==
  [][ \A t \in CloseTasks, ok \in BOOLEAN :
        /\ ArchiveSend(t, ok) => GoesOnAt(t, "dm")
        /\ OwnerSend(t, ok) => GoesOnAt(t, "delete")
        /\ ChannelDelete(t, ok) =>
             /\ t.chan \in DOMAIN channels' <=> (t.chan \in DOMAIN channels /\ ~ok)
        /\ (ArchiveSend(t, ok) \/ OwnerSend(t, ok) \/ ChannelDelete(t, ok)) =>
             /\ tickets' = tickets
             /\ \E id \in TicketIds :
                  tickets[id].id = t.tid /\ tickets[id].status = "closed"
    ]_vars

\* neither delivery of ticket 1's transcript went through, and the
\* callback stands at the deletion of the channel
C16_Witness ==
  \E t \in CloseTasks :
    /\ t.tid = 1 /\ t.pc = "delete" /\ t.sent = {}
    /\ 1 \in DOMAIN channels /\ 1 \in files
    /\ tickets[1].status = "closed"

(* ------------------------------- C17 ---------------------------------- *)
\* the Claim calls on ticket id, those whose claim was written, and those
\* that were turned down
CallsOn(id) == {t \in ClaimCalls : t.tid = id}
Written(id) == {t \in CallsOn(id) : t.pc \in {"notice", "reply", "accepted"}}
Rejected(id) == {t \in CallsOn(id) : t.pc = "rejected"}

\* C17: the two staff actors issue Claim, as buttons or commands in any
\* mix, and the handlers interleave at their awaits in any order. On every
\* ticket at most one claim is written, and claimedBy is the id of the
\* actor whose claim was written (empty while none is); when both actors
\* have claimed the same unclaimed ticket and both handlers have run,
\* exactly one claim was written and the other was rejected; and no step
\* replaces a claimedBy that is set.
C17_OneClaimWins ==
  /\ [](\A id \in TicketIds :
          /\ Cardinality(Written(id)) <= 1
          /\ \A t \in Written(id) : tickets[id].claimed_by = t.actor
          /\ Written(id) = {} => tickets[id].claimed_by = NULL
          /\ (/\ Cardinality(CallsOn(id)) = 2
              /\ \A t \in CallsOn(id) : t.pc # "arrived") =>
                /\ Cardinality(Written(id)) = 1
                /\ Cardinality(Rejected(id)) = 1)
  /\ [][ \A id \in TicketIds :
           tickets[id].claimed_by # NULL =>
             tickets'[id].claimed_by = tickets[id].claimed_by ]_vars

\* the command of stf won against the button of adm: ticket 1 is claimed by
\* stf, whose handler has replied, and adm was told of the conflict before
C17_Witness ==
  /\ ClaimCall("accepted", "command", "stf", 1, 1) \in ClaimCalls
  /\ ClaimCall("rejected", "button", "adm", 1, 1) \in ClaimCalls
  /\ tickets[1].claimed_by = "stf"
  /\ reply = "ok"

(* ------------------------------- C18 ---------------------------------- *)
\* the delayed steps of Closes of ticket id in the bag ts that are under
\* way at position pc
RECURSIVE CopiesOf(_, _)
CopiesOf(ts, S) ==
  IF S = {} THEN 0
  ELSE LET t == CHOOSE x \in S : TRUE
       IN CopiesIn(t, ts) + CopiesOf(ts, S \ {t})

UnderWay(ts, id, pc) ==
  CopiesOf(ts, {t \in BagToSet(ts) :
                  t.kind = "close" /\ t.tid = id /\ t.pc = pc})

\* C18: a Close by a staff actor, as button or as command, on a ticket
\* whose status is closed is accepted as the first Close was: the table
\* stays as it is (status closed), no rejection is replied, and one more
\* delayed step for the ticket is under way; when its reply has gone out
\* one more timer is armed next to those armed before, so k Closes leave k
\* delayed steps.
C18_RecloseRearms ==
  [][ /\ \A a \in StaffActors, id \in TicketIds :
           (tickets[id].status = "closed" /\ CloseButton(a, id)) =>
             /\ tickets' = tickets /\ reply' = reply
             /\ UnderWay(tasks', id, "notify") = UnderWay(tasks, id, "notify") + 1
             /\ UnderWay(tasks', id, "armed") = UnderWay(tasks, id, "armed")
      /\ \A a \in StaffActors, c \in DOMAIN channels : \A id \in RecordsOf(c) :
           (tickets[id].status = "closed" /\ CloseCommand(a, c)) =>
             /\ tickets' = tickets /\ reply' = reply
             /\ UnderWay(tasks', id, "notify") = UnderWay(tasks, id, "notify") + 1
             /\ UnderWay(tasks', id, "armed") = UnderWay(tasks, id, "armed")
      /\ \A t \in CloseTasks :
           CloseNotify(t, TRUE) =>
             UnderWay(tasks', t.tid, "armed") = UnderWay(tasks, t.tid, "armed") + 1
    ]_vars

\* ticket 1 was closed twice and both timers are armed, the channel is
\* still there
C18_Witness ==
  /\ tickets[1].status = "closed"
  /\ UnderWay(tasks, 1, "armed") = 2
  /\ 1 \in DOMAIN channels

(* ------------------------------- C19 ---------------------------------- *)
\* a step in which a staff actor issues Close
CloseIssued ==
  \E a \in StaffActors :
    \/ \E id \in TicketIds : CloseButton(a, id)
    \/ \E c \in DOMAIN channels : CloseCommand(a, c)

\* C19: a restart while delayed steps of Closes are under way drops them
\* all and leaves the table (status closed), the channels and the
\* transcript files as they are; while no delayed step is under way, as
\* after the restart, no step deletes a channel or writes a transcript; and
\* a delayed step comes under way only by a Close that a staff actor
\* issues.
C19_RestartDropsTimer ==
  [][ /\ Restart =>
           /\ tasks' = EmptyBag
           /\ UNCHANGED <<tickets, channels, files>>
      /\ CloseTasks = {} =>
           /\ DOMAIN channels \subseteq DOMAIN channels'
           /\ files' = files
      /\ (\E u \in BagToSet(tasks') :
            u.kind = "close" /\ CopiesIn(u, tasks') > CopiesIn(u, tasks)
              /\ u.pc = "notify")
           => CloseIssued ]_vars

\* ticket 1 was closed and the process restarted before the delayed step:
\* the status is closed, the channel is there, no transcript of it was
\* written and no delayed step is left
C19_Witness ==
  /\ tickets[1].status = "closed"
  /\ 1 \in DOMAIN channels
  /\ 1 \notin files
  /\ tasks = EmptyBag
  /\ reply = "none"

(* ------------------------------- C20 ---------------------------------- *)
\* the creations in flight that have chosen their name and wait for the
\* platform to create the channel
Creating == {u \in TaskSet : u.kind = "create" /\ u.pc = "creating"}

\* C20: the name check reads the existing channels only. A creation that
\* comes to choose its name while another creation with the same base has
\* chosen a name whose channel does not exist yet (and which is still the
\* first unused name) chooses that same name; and the platform creates the
\* channel under the chosen name whether or not a channel bears it. So two
\* creations with the same base that run at the same time can leave two
\* ticket channels with equal names.
C20_NameRace ==
  [][ /\ \A t \in TaskSet :
           CallChannelCreate(t, TRUE, TRUE) =>
             \A u \in Creating :
               (/\ BaseOf(u) = BaseOf(t)
                /\ u.name = uniqueName(ChannelNames, BaseOf(u)))
                 => \E v \in BagToSet(tasks') :
                      /\ tasks' = (tasks (-) SetToBag({t})) (+) SetToBag({v})
                      /\ v.pc = "creating" /\ v.name = u.name
      /\ \A t \in TaskSet :
           ChannelCreated(t, TRUE) =>
             \E c \in DOMAIN channels' \ DOMAIN channels :
               channels'[c].name = t.name ]_vars

\* both creations of usr have read the names before either channel was
\* created: two open tickets of usr on two channels with the same name
C20_Witness ==
  /\ Len(tickets) = 2
  /\ tickets[1].owner_id = "usr" /\ tickets[2].owner_id = "usr"
  /\ tickets[1].status = "open" /\ tickets[2].status = "open"
  /\ tickets[1].channel_id # tickets[2].channel_id
  /\ {tickets[1].channel_id, tickets[2].channel_id} \subseteq DOMAIN channels
  /\ channels[tickets[1].channel_id].name = channels[tickets[2].channel_id].name

(* ------------------------------- C21 ---------------------------------- *)
\* a step of requester u's own: a selection or a topic submission
OwnStep(u) ==
  \/ \E i \in MenuIndices : SelectCategory(u, i)
  \/ \E tp \in Topics : ModalSubmit(u, tp)

\* C21: however the selections and submissions of the requesters
\* interleave, the pending entry of a requester is what this requester
\* selected last: a selection replaces the requester's own entry and no
\* other, a submission clears the requester's own entry and no other, and
\* an entry changes only by its requester's own step (or is lost with the
\* process); a submission starts the creation with the requester's entry as
\* it is then, the creation carries requester and entry unchanged to its
\* end, and the record it inserts has that requester as owner and the
\* catalog entry of that selection as category.
C21_PendingPerRequester ==
  [][ /\ \A u \in Requesters, i \in MenuIndices :
           SelectCategory(u, i) =>
             /\ pending'[u] = Numerals[i + 1]
             /\ \A w \in Requesters \ {u} : pending'[w] = pending[w]
      /\ \A u \in Requesters, tp \in Topics :
           ModalSubmit(u, tp) =>
             /\ \A w \in Requesters \ {u} : pending'[w] = pending[w]
             /\ \A v \in BagToSet(tasks') :
                  CopiesIn(v, tasks') > CopiesIn(v, tasks) =>
                    v.owner = u /\ v.chosen = pending[u]
      /\ \A u \in Requesters :
           pending'[u] # pending[u] => (OwnStep(u) \/ Restart)
      /\ \A v \in BagToSet(tasks') :
           (v.kind = "create" /\ v.pc # "deferring"
              /\ CopiesIn(v, tasks') > CopiesIn(v, tasks)) =>
             \E t \in TaskSet :
               SameRequest(t, v) /\ CopiesIn(t, tasks') < CopiesIn(t, tasks)
      /\ Len(tickets') > Len(tickets) =>
           \E t \in TaskSet :
             /\ t.kind = "create" /\ CopiesIn(t, tasks') < CopiesIn(t, tasks)
             /\ Len(tickets') = Len(tickets) + 1
             /\ tickets'[Len(tickets')].owner_id = t.owner
             /\ tickets'[Len(tickets')].category =
                  CatalogEntry(IndexOf(t.chosen)) ]_vars

\* usr's ticket has the category usr selected, while the selection that gst
\* made in between is still pending, untouched by usr's submission
C21_Witness ==
  /\ Len(tickets) = 1
  /\ tickets[1].owner_id = "usr"
  /\ tickets[1].category = "Donaties"
  /\ pending["usr"] = Undefined
  /\ pending["gst"] = "2"

(* ------------------------------- C22 ---------------------------------- *)
\* the positions of a Close's delayed step after makeTranscript
PastTranscript == {"deliver", "dm", "delete"}

\* C22: a channel leaves the guild only in the deletion of the delayed step
\* of a Close on that channel; the record of a Close under way is closed
\* from the moment the Close was accepted; the delayed step is past its
\* transcript only by a transcript build that succeeded in that same step
\* and wrote the file of that channel; and the channel of a record whose
\* status is open stays in the guild.
C22_DeleteOnlyAfterCloseAndTranscript ==
  /\ [](\A t \in CloseTasks :
         /\ t.tid \in TicketIds
         /\ tickets[t.tid].status = "closed"
         /\ tickets[t.tid].channel_id = t.chan
         /\ t.pc \in PastTranscript => t.chan \in files)
  /\ [][ /\ \A c \in DOMAIN channels \ DOMAIN channels' :
             /\ \E t \in CloseTasks :
                  /\ t.chan = c /\ t.pc \in PastTranscript
                  /\ DeliverAndDelete(t, TRUE) \/ ChannelDelete(t, TRUE)
             /\ c \in files
             /\ \A id \in RecordsOf(c) : tickets[id].status = "closed"
        /\ \A v \in CloseTasks' :
             (v.pc = "deliver" /\ CopiesIn(v, tasks') > CopiesIn(v, tasks)) =>
               \E t \in CloseTasks :
                 /\ t.pc = "armed" /\ v = [t EXCEPT !.pc = "deliver"]
                 /\ TimerFire(t, TRUE)
                 /\ t.chan \in files'
        /\ \A id \in TicketIds :
             (tickets[id].status = "open"
                /\ tickets[id].channel_id \in DOMAIN channels) =>
               tickets[id].channel_id \in DOMAIN channels' ]_vars

\* the channel of ticket 1 was deleted by a Close: the record is closed and
\* the transcript of the channel is on disk
C22_Witness ==
  /\ 1 \notin DOMAIN channels
  /\ tickets[1].channel_id = 1
  /\ tickets[1].status = "closed"
  /\ 1 \in files
  /\ tasks = EmptyBag

(* ------------------------------- C23 ---------------------------------- *)
\* a step of a claim or an unclaim, by button on record id or by command
\* in the channel of record id
ClaimOrUnclaimOn(id) ==
  \E a \in Actors :
    \/ ClaimButton(a, id) \/ UnclaimButton(a, id)
    \/ /\ tickets[id].channel_id \in DOMAIN channels
       /\ getTicketByChannel(tickets, tickets[id].channel_id).id = id
       /\ \/ ClaimCommand(a, tickets[id].channel_id)
          \/ UnclaimCommand(a, tickets[id].channel_id)

\* C23: the claimedBy of a record changes only in a step that starts with
\* the record's status open, and a claim or an unclaim on a record whose
\* status is closed leaves the table as it is.
C23_ClaimOnlyWhileOpen ==
  [][ \A id \in TicketIds :
        /\ tickets'[id].claimed_by # tickets[id].claimed_by =>
             tickets[id].status = "open"
        /\ (tickets[id].status = "closed" /\ ClaimOrUnclaimOn(id)) =>
             tickets' = tickets ]_vars

(* ------------------------------- C24 ---------------------------------- *)
\* the page that a step of the loop has appended
PageOf(before, after) == SubSeq(after, Len(before) + 1, Len(after))

\* C24: on a history of N messages that stays as it is, the loop ends: each
\* of its turns is one more fetch, a turn is possible while it runs, and it
\* runs only while fewer than floor(N / 100) + 1 pages were fetched; while
\* it runs every page so far was full; the anchor of the next fetch is the
\* oldest id accumulated (none before the first page) and the page fetched
\* holds only older messages; the loop goes on after a full page and stops
\* at the first page that is empty or short; and when it has stopped
\* without a failure it has fetched floor(N / 100) + 1 pages.
C24_PagingTerminates ==
  /\ [](tpc = "fetch" => ENABLED FetchPage)
  /\ [](tpc \in {"render", "done"} =>
          fetches = (Len(hist) \div PageLimit) + 1)
  /\ [](tpc = "fetch" =>
          /\ fetches <= Len(hist) \div PageLimit
          /\ Len(acc) = fetches * PageLimit)
  /\ [](IF acc = <<>> THEN lastId = 0
        ELSE /\ lastId = acc[Len(acc)].id
             /\ \A k \in 1..Len(acc) : acc[k].id >= lastId)
  /\ [][ /\ hist' = hist
         /\ tpc = "fetch" => fetches' = fetches + 1
         /\ tpc # "fetch" => fetches' = fetches /\ tpc' # "fetch"
         /\ FetchPage =>
              LET page == PageOf(acc, acc')
              IN /\ fetches >= 1 => lastId # 0
                 /\ \A k \in 1..Len(page) : lastId # 0 => page[k].id < lastId
                 /\ (tpc' = "fetch") <=> (Len(page) = PageLimit)
                 /\ (tpc' = "render") <=> (Len(page) < PageLimit) ]_vars

\* a history of two full pages was read in three fetches, the third empty
C24_Witness ==
  /\ tpc = "done"
  /\ Len(hist) = 2 * PageLimit
  /\ Len(acc) = 2 * PageLimit
  /\ fetches = 3

(* ------------------------------- C25 ---------------------------------- *)
\* C25: when messages are sent to and deleted from the channel while the
\* transcript is built, the messages accumulated are strictly descending
\* in id, each page fetched holds only messages older than every message
\* accumulated before it, and in the file the message lines are strictly
\* ascending in time: no message is rendered twice and the rendered
\* messages are in send order.
C25_NoDuplicateUnderEdits ==
  /\ [](\A k \in 1..(Len(acc) - 1) : acc[k].id > acc[k + 1].id)
  /\ [](tpc = "done" =>
          /\ Len(MessageLines) = Len(acc)
          /\ \A k \in 1..(Len(MessageLines) - 1) :
               out[MessageLines[k]].time < out[MessageLines[k + 1]].time)
  /\ [][ FetchPage =>
           LET page == PageOf(acc, acc')
           IN \A k \in 1..Len(page) :
                acc # <<>> => page[k].id < acc[Len(acc)].id ]_vars

\* a history of two full pages lost the message just older than the anchor
\* after the first page was fetched, so the second page was short and ended
\* the loop, and a message sent during the build is not in the transcript
C25_Witness ==
  /\ tpc = "done"
  /\ fetches = 2
  /\ Len(acc) = 2 * PageLimit - 1
  /\ acc[1].id = 10 + 2 * PageLimit
  /\ hist[Len(hist)].id > acc[1].id
====
